---------------------------- MODULE Spec2Model ----------------------------
(***************************************************************************)
(* The filter-and-aggregate dashboards of the repository, as one state     *)
(* machine.  Each dashboard is a Streamlit script: every user interaction  *)
(* reruns the script from its first line; only the widget values and the   *)
(* st.cache / st.cache_data memo survive a rerun.                          *)
(*                                                                         *)
(*   app = "olympics"  src/DV_class.py (lines 265-550), src/ex2.py         *)
(*   app = "westnile"  src/Ex6.py                                          *)
(*   app = "co2"       src/ex3.py                                          *)
(*   app = "sheep"     src/ex4.py                                          *)
(*                                                                         *)
(* A DataFrame is [cols |-> set of column names, dtypes |-> "number" or     *)
(* "text" per column, rows |-> sequence of [ix |-> index label, v |->      *)
(* function from cols to values]].  A missing value is NaN in a numeric    *)
(* column and None in a text column.                                       *)
(***************************************************************************)
EXTENDS Integers, Sequences, FiniteSets, TLC

VARIABLES
    app,        \* which script this process runs
    resource,   \* the dataset file on disk: [cols, recs]
    resource2,  \* the second file (sheep_edges.csv); empty for the others
    cache,      \* st.cache / st.cache_data memo: <<>> or <<value>>
    reads,      \* how many times the dataset file has been read
    fetches,    \* how many times the geographic boundaries were fetched
    pc,         \* position of the current run in the script
    outcome,    \* "running", "ok", "stopped" (st.stop) or "exception"
    ran,        \* the steps the current run has executed
    df,         \* the script's DataFrame df (age_df for the sheep)
    loaded,     \* the DataFrame as the load call of this run returned it
    sel,        \* the widget values (session state)
    fresh,      \* TRUE until the widgets have been rendered once
    prev,       \* <<the view of the run before>> in a rerun that changed no filter of
                \* the view (with the map aggregate behind it after a change of the
                \* West Nile county selection), else <<>>
    view,       \* df_filtered / year_df / filtered_df
    agg,        \* the aggregates handed to the charts
    nrecords,   \* the "Records after filtering" figure
    extra       \* per-script data: line_df, edges_df, the graph

vars == <<app, resource, resource2, cache, reads, fetches, pc, outcome, ran,
          df, loaded, sel, fresh, prev, view, agg, nrecords, extra>>

-----------------------------------------------------------------------------
(* Bounds of the model *)

MaxRows == 2

MaxReads == 3

-----------------------------------------------------------------------------
(* Values and DataFrames *)

\* the missing marker of a numeric column (pandas NaN)
NaN == -1

\* the missing marker of a text column (JSON null / empty CSV cell)
None == "None"

\* the columns whose cells the files of the model hold as numbers
NumericCols == {"Year", "Latitude", "Longitude", "id", "Positive_Cases", "Value",
                "Sheep_ID", "Sheep_Age", "Source_Sheep_ID", "Target_Sheep_ID",
                "Weight"}

\* the columns whose cells the files of the model hold as written (tokens)
TokenCols == {"Week_Reported"}

\* pd.to_numeric(token, errors="coerce"): the number a numeral denotes, NaN
\* for any other token
ToNumeric(tok) ==
    CASE tok = "1" -> 1
      [] tok = "2" -> 2
      [] tok = "3" -> 3
      [] OTHER -> NaN

IsNumeral(tok) == tok \in {"1", "2", "3"}

\* pandas.isna of a value of column c of frame f
IsNA(f, c, x) == IF f.dtypes[c] = "number" THEN x = NaN ELSE x = None

EmptyFrame == [cols |-> {}, dtypes |-> <<>>, rows |-> <<>>]

Restrict(f, S) == [c \in S |-> f[c]]

\* the type read_csv / read_json infers for column c: a column of tokens is
\* numeric only when every token is a numeral
InferType(res, c) ==
    IF c \in TokenCols
    THEN IF \A i \in DOMAIN res.recs : IsNumeral(res.recs[i][c]) THEN "number" ELSE "text"
    ELSE IF c \in NumericCols THEN "number" ELSE "text"

\* pd.read_json / pd.read_csv: the records of the file under a RangeIndex
ReadFrame(res) ==
    [cols   |-> res.cols,
     dtypes |-> [c \in res.cols |-> InferType(res, c)],
     rows   |-> [i \in 1..Len(res.recs) |->
                   [ix |-> i - 1,
                    v  |-> [c \in res.cols |->
                              IF c \in TokenCols /\ InferType(res, c) = "number"
                              THEN ToNumeric(res.recs[i][c])
                              ELSE res.recs[i][c]]]]]

\* two frames are equal: columns, types, labels and every cell
SameFrame(a, b) ==
    /\ a.cols = b.cols
    /\ a.dtypes = b.dtypes
    /\ a.rows = b.rows

\* df[c] raises KeyError unless c is a column
HasCols(f, S) == S \subseteq f.cols

\* sorted(df[c].unique()) as a set (the order plays no part in the filters)
Unique(f, c) == {f.rows[i].v[c] : i \in DOMAIN f.rows}

SetMin(S) == CHOOSE x \in S : \A y \in S : x <= y

SetMax(S) == CHOOSE x \in S : \A y \in S : x >= y

\* boolean Series: df[c] >= x, df[c] <= x, df[c] == x, df[c].isin(S), a & b
SeriesGE(f, c, x) == [i \in DOMAIN f.rows |-> f.rows[i].v[c] # NaN /\ f.rows[i].v[c] >= x]

SeriesLE(f, c, x) == [i \in DOMAIN f.rows |-> f.rows[i].v[c] # NaN /\ f.rows[i].v[c] <= x]

SeriesEQ(f, c, x) == [i \in DOMAIN f.rows |-> ~IsNA(f, c, f.rows[i].v[c]) /\ f.rows[i].v[c] = x]

\* isin with an empty selection read as "no filter on this column"
SeriesIsInOrAll(f, c, S) == [i \in DOMAIN f.rows |-> S = {} \/ f.rows[i].v[c] \in S]

SeriesIsIn(f, c, S) == [i \in DOMAIN f.rows |-> f.rows[i].v[c] \in S]

MaskAnd(a, b) == [i \in DOMAIN a |-> a[i] /\ b[i]]

RECURSIVE TakeRows(_, _, _)
TakeRows(rows, mask, i) ==
    IF i > Len(rows) THEN <<>>
    ELSE IF mask[i] THEN <<rows[i]>> \o TakeRows(rows, mask, i + 1)
         ELSE TakeRows(rows, mask, i + 1)

\* df[mask].reset_index(drop=True): the kept rows relabelled 0, 1, ...
BoolIndexReset(f, mask) ==
    LET kept == TakeRows(f.rows, mask, 1)
    IN  [cols |-> f.cols, dtypes |-> f.dtypes,
         rows |-> [i \in DOMAIN kept |-> [ix |-> i - 1, v |-> kept[i].v]]]

\* df[mask]: the rows whose mask entry is True, in order, labels kept
BoolIndex(f, mask) ==
    [cols |-> f.cols, dtypes |-> f.dtypes, rows |-> TakeRows(f.rows, mask, 1)]

\* the tuple of grouping-column values of a row
Key(r, keys) == [j \in 1..Len(keys) |-> r.v[keys[j]]]

\* the rows groupby keeps: dropna=True is the default, so a row with a
\* missing value in a grouping column belongs to no group
GroupedRows(f, keys) ==
    {i \in DOMAIN f.rows : \A j \in 1..Len(keys) : ~IsNA(f, keys[j], f.rows[i].v[keys[j]])}

\* df.groupby(keys).size(): key tuple -> number of rows
GroupBySize(f, keys) ==
    LET kept == GroupedRows(f, keys)
        ks   == {Key(f.rows[i], keys) : i \in kept}
    IN  [k \in ks |-> Cardinality({i \in kept : Key(f.rows[i], keys) = k})]

RECURSIVE SumOver(_, _, _)
SumOver(rows, S, c) ==
    IF S = {} THEN 0
    ELSE LET i == CHOOSE j \in S : TRUE
             x == rows[i].v[c]
         IN  (IF x = NaN THEN 0 ELSE x) + SumOver(rows, S \ {i}, c)

\* df.groupby(keys)[c].sum(): key tuple -> sum of column c (NaN skipped)
GroupBySum(f, keys, c) ==
    LET kept == GroupedRows(f, keys)
        ks   == {Key(f.rows[i], keys) : i \in kept}
    IN  [k \in ks |-> SumOver(f.rows, {i \in kept : Key(f.rows[i], keys) = k}, c)]

RECURSIVE SumValues(_, _)
SumValues(g, S) ==
    IF S = {} THEN 0
    ELSE LET k == CHOOSE x \in S : TRUE IN g[k] + SumValues(g, S \ {k})

\* the total of an aggregate's counts (or sums)
Total(g) == SumValues(g, DOMAIN g)

\* sequences over U of length at most n
RECURSIVE SeqsUpTo(_, _)
SeqsUpTo(U, n) ==
    IF n = 0 THEN {<<>>}
    ELSE LET shorter == SeqsUpTo(U, n - 1)
         IN  shorter \cup {Append(s, x) : s \in {t \in shorter : Len(t) = n - 1}, x \in U}

-----------------------------------------------------------------------------
(* One run of a script: bookkeeping shared by the four dashboards *)

NoSel == [unset |-> TRUE]

\* the run goes on to the next statement
Advance(step, next) ==
    /\ pc' = next
    /\ ran' = ran \cup {step}
    /\ outcome' = "running"

\* the statement raised (KeyError, ValueError): Streamlit shows the traceback
\* and the run is over
Raise(step) ==
    /\ pc' = "done"
    /\ ran' = ran \cup {step}
    /\ outcome' = "exception"

\* the last statement of the script has run
Finish(step) ==
    /\ pc' = "done"
    /\ ran' = ran \cup {step}
    /\ outcome' = "ok"

\* the aggregates of a run that has computed none yet
NoAgg == [j \in 1..5 |-> <<>>]

\* a rerun starts at the first line of the script: the variables of the run
\* before are gone
Restart ==
    /\ pc' = "load"
    /\ ran' = {}
    /\ outcome' = "running"
    /\ df' = EmptyFrame
    /\ loaded' = EmptyFrame
    /\ view' = EmptyFrame
    /\ agg' = NoAgg
    /\ nrecords' = 0

-----------------------------------------------------------------------------
(* Winter Olympics explorer: src/DV_class.py 265-550 (src/ex2.py is the     *)
(* same pipeline with other chart colours)                                  *)

OlyCols == {"Year", "Sport", "Country", "Gender", "Medal", "City",
            "Latitude", "Longitude"}

OlyRow(y, s, c, g, m, city, lat, lon) ==
    [k \in OlyCols |->
        CASE k = "Year" -> y
          [] k = "Sport" -> s
          [] k = "Country" -> c
          [] k = "Gender" -> g
          [] k = "Medal" -> m
          [] k = "City" -> city
          [] k = "Latitude" -> lat
          [] k = "Longitude" -> lon]

\* the records the bounded datasets are drawn from: the three of the worked
\* example, one without a medal, one without a host city and one whose
\* gender code is none of the widget's options
OlyUniverse ==
    { OlyRow(2002, "Skiing", "USA", "M", "Gold", "SaltLake", 40, 111),
      OlyRow(2002, "Skiing", "USA", "W", "Silver", "SaltLake", 40, 111),
      OlyRow(2006, "Luge", "CAN", "M", "Gold", "Turin", 45, 7),
      OlyRow(2006, "Luge", "USA", "X", None, "Turin", 45, 7),
      OlyRow(2002, "Luge", "CAN", "W", "Gold", None, NaN, NaN),
      OlyRow(2006, "Skiing", "CAN", "F", "Gold", "Turin", 45, 7) }

\* the three-record example of the specification
ExampleData ==
    << OlyRow(2002, "Skiing", "USA", "M", "Gold", "SaltLake", 40, 111),
       OlyRow(2002, "Skiing", "USA", "W", "Silver", "SaltLake", 40, 111),
       OlyRow(2006, "Luge", "CAN", "M", "Gold", "Turin", 45, 7) >>

\* a file holding the records recs, without the columns in drop
FileOf(cols, recs, drop) ==
    [cols |-> cols \ drop,
     recs |-> [i \in 1..Len(recs) |-> Restrict(recs[i], cols \ drop)]]

\* olympics.json: any bounded dataset with the full schema, or the example
\* with one column absent
OlyFiles ==
    {FileOf(OlyCols, recs, {}) : recs \in SeqsUpTo(OlyUniverse, MaxRows) \cup {ExampleData}}
    \cup {FileOf(OlyCols, ExampleData, {c}) : c \in OlyCols}

all_genders == {"M", "W", "X"}

OlyAggNames == <<"total_by_year", "medal_distribution", "year_country_medals",
                 "city_summary", "breakdown_full">>

\* the grouping columns of the five aggregates, in the order the script
\* computes them
OlyAggKeys ==
    << <<"Year">>,
       <<"Year", "Medal">>,
       <<"Year", "Country">>,
       <<"Year", "City", "Latitude", "Longitude">>,
       <<"Year", "Country", "Medal">> >>

Range(s) == {s[i] : i \in DOMAIN s}

\* load_data() under @st.cache_data: the file is read on the first call only
OlyLoad ==
    /\ app = "olympics" /\ pc = "load"
    /\ IF cache = <<>>
       THEN /\ reads' = reads + 1
            /\ cache' = <<ReadFrame(resource)>>
            /\ df' = ReadFrame(resource)
       ELSE /\ df' = cache[1]
            /\ UNCHANGED <<reads, cache>>
    /\ loaded' = df'
    /\ Advance("load", "widgets")
    /\ UNCHANGED <<app, resource, resource2, fetches, sel, fresh, prev, view,
                   agg, nrecords, extra>>

\* the widget defaults with the gender options taken from the data, as the
\* sport and country options are
OlyDefaultsFromData(f) ==
    [years     |-> <<SetMin(Unique(f, "Year")), SetMax(Unique(f, "Year"))>>,
     sports    |-> Unique(f, "Sport"),
     countries |-> Unique(f, "Country"),
     genders   |-> IF HasCols(f, {"Gender"}) THEN Unique(f, "Gender") ELSE all_genders]

\* the default values of the four filter widgets
OlyDefaults(f) ==
    [years     |-> <<SetMin(Unique(f, "Year")), SetMax(Unique(f, "Year"))>>,
     sports    |-> Unique(f, "Sport"),
     countries |-> Unique(f, "Country"),
     genders   |-> all_genders]

\* the sidebar: options from the data, values from the session
OlyWidgets ==
    /\ app = "olympics" /\ pc = "widgets"
    /\ IF /\ HasCols(df, {"Year", "Sport", "Country"})
          /\ Unique(df, "Year") # {}
       THEN /\ sel' = IF fresh THEN OlyDefaults(df) ELSE sel
            /\ fresh' = FALSE
            /\ Advance("widgets", "filter")
       ELSE /\ Raise("widgets")
            /\ UNCHANGED <<sel, fresh>>
    /\ UNCHANGED <<app, resource, resource2, cache, reads, fetches, df, loaded,
                   prev, view, agg, nrecords, extra>>

SeriesGT(f, c, x) == [i \in DOMAIN f.rows |-> f.rows[i].v[c] # NaN /\ f.rows[i].v[c] > x]

\* the mask with the lower end of the year range left out (> for >=)
OlyMaskExclusive(f, s) ==
    MaskAnd(MaskAnd(MaskAnd(MaskAnd(
        SeriesGT(f, "Year", s.years[1]),
        SeriesLE(f, "Year", s.years[2])),
        SeriesIsIn(f, "Sport", s.sports)),
        SeriesIsIn(f, "Country", s.countries)),
        SeriesIsIn(f, "Gender", s.genders))

\* the mask with the two ends of the year range joined by "or"
OlyMaskEitherEnd(f, s) ==
    [i \in DOMAIN f.rows |->
        /\ SeriesGE(f, "Year", s.years[1])[i] \/ SeriesLE(f, "Year", s.years[2])[i]
        /\ SeriesIsIn(f, "Sport", s.sports)[i]
        /\ SeriesIsIn(f, "Country", s.countries)[i]
        /\ SeriesIsIn(f, "Gender", s.genders)[i]]

\* the boolean mask of lines 323-327
OlyMask(f, s) ==
    MaskAnd(MaskAnd(MaskAnd(MaskAnd(
        SeriesGE(f, "Year", s.years[1]),
        SeriesLE(f, "Year", s.years[2])),
        SeriesIsIn(f, "Sport", s.sports)),
        SeriesIsIn(f, "Country", s.countries)),
        SeriesIsIn(f, "Gender", s.genders))

\* df_filtered = df[mask]
OlyApplyFilters(f, s) == BoolIndex(f, OlyMask(f, s))

OlyFilter ==
    /\ app = "olympics" /\ pc = "filter"
    /\ IF HasCols(df, {"Gender"})
       THEN /\ view' = OlyApplyFilters(df, sel)
            /\ nrecords' = Len(view'.rows)
            /\ Advance("filter", "aggregate")
       ELSE /\ Raise("filter")
            /\ UNCHANGED <<view, nrecords>>
    /\ UNCHANGED <<app, resource, resource2, cache, reads, fetches, df, loaded,
                   sel, fresh, prev, agg, extra>>

\* how many of the five groupby statements run before one raises KeyError
OlyAggDone(f) ==
    LET bad == {j \in DOMAIN OlyAggKeys : ~HasCols(f, Range(OlyAggKeys[j]))}
    IN  IF bad = {} THEN Len(OlyAggKeys) ELSE SetMin(bad) - 1

\* the aggregate grouped from the whole Dataset instead of the view
OlyAggregateOfData(f, j) == GroupBySize(df, OlyAggKeys[j])

\* medal_distribution limited to the years total_by_year holds at the moment
\* it is computed: an aggregate that reads another one
OlyAggregateChained(f, j) ==
    LET g == GroupBySize(f, OlyAggKeys[j])
    IN  IF j = 2
        THEN [k \in {k \in DOMAIN g : <<k[1]>> \in DOMAIN agg[1]} |-> g[k]]
        ELSE g

\* the aggregate named OlyAggNames[j], from the view
OlyAggregateOf(f, j) == GroupBySize(f, OlyAggKeys[j])

OlyAggregate ==
    /\ app = "olympics" /\ pc = "aggregate"
    /\ agg' = [j \in DOMAIN OlyAggNames |->
                 IF j <= OlyAggDone(view) THEN OlyAggregateOf(view, j) ELSE agg[j]]
    /\ IF OlyAggDone(view) = Len(OlyAggKeys)
       THEN Advance("aggregate", "render")
       ELSE Raise("aggregate")
    /\ UNCHANGED <<app, resource, resource2, cache, reads, fetches, df, loaded,
                   sel, fresh, prev, view, nrecords, extra>>

\* the breakdown panel before it is rendered for the first time: the options
\* and values of its two selectboxes (<<>> is Python's None) and the rows of
\* breakdown_filtered
NoBreakdown == [years |-> {}, year |-> <<>>, countries |-> {}, country |-> <<>>,
                result |-> <<>>]

\* the country codes of the model in sorted() order
CountryOrder == <<"CAN", "USA">>

\* sorted(S)[0] for a set S of years, or of country codes
FirstYear(S) == SetMin(S)

FirstCountry(S) == SelectSeq(CountryOrder, LAMBDA c : c \in S)[1]

\* st.selectbox(options=...): None without options; the value of the session
\* while the options are those it was chosen among; else the first option
SelectBox(opts, oldopts, old, first) ==
    IF opts = {} THEN <<>>
    ELSE IF opts = oldopts /\ old # <<>> THEN old
    ELSE <<first>>

\* breakdown_full[(Year == selected year) & (Country == selected country)]
BreakdownLookup(g, y, c) ==
    LET hit == {k \in DOMAIN g : y # <<>> /\ c # <<>> /\ k[1] = y[1] /\ k[2] = c[1]}
    IN  [k \in hit |-> g[k]]

\* the breakdown panel of this run
OlyBreakdown(f, g, old) ==
    LET ys == Unique(f, "Year")
        cs == Unique(f, "Country")
        y  == SelectBox(ys, old.years, old.year, IF ys = {} THEN 0 ELSE FirstYear(ys))
        c  == SelectBox(cs, old.countries, old.country,
                        IF cs = {} THEN "" ELSE FirstCountry(cs))
    IN  [years |-> ys, year |-> y, countries |-> cs, country |-> c,
         result |-> BreakdownLookup(g, y, c)]

\* the five charts, the breakdown panel and the data table
OlyRender ==
    /\ app = "olympics" /\ pc = "render"
    /\ extra' = OlyBreakdown(view, agg[5], extra)
    /\ Finish("charts")
    /\ UNCHANGED <<app, resource, resource2, cache, reads, fetches, df, loaded,
                   sel, fresh, prev, view, agg, nrecords>>

\* the user moves one of the four filter widgets; Streamlit reruns the script
OlyInteract ==
    /\ app = "olympics" /\ pc = "done" /\ ~fresh
    /\ \/ \E lo \in Unique(loaded, "Year"), hi \in Unique(loaded, "Year") :
            lo <= hi /\ sel' = [sel EXCEPT !.years = <<lo, hi>>]
       \/ \E S \in SUBSET Unique(loaded, "Sport") : sel' = [sel EXCEPT !.sports = S]
       \/ \E S \in SUBSET Unique(loaded, "Country") : sel' = [sel EXCEPT !.countries = S]
       \/ \E S \in SUBSET all_genders : sel' = [sel EXCEPT !.genders = S]
    /\ sel' # sel
    /\ prev' = <<>>
    /\ Restart
    /\ extra' = [extra EXCEPT !.result = <<>>]
    /\ UNCHANGED <<app, resource, resource2, cache, reads, fetches, fresh>>

\* the user picks another year or country in the breakdown panel; Streamlit
\* reruns the script with the filters as they are
OlyPick ==
    /\ app = "olympics" /\ pc = "done" /\ "charts" \in ran
    /\ \/ \E y \in extra.years :
            extra' = [extra EXCEPT !.year = <<y>>, !.result = <<>>]
       \/ \E c \in extra.countries :
            extra' = [extra EXCEPT !.country = <<c>>, !.result = <<>>]
    /\ extra'.year # extra.year \/ extra'.country # extra.country
    /\ prev' = <<view>>
    /\ Restart
    /\ UNCHANGED <<app, resource, resource2, cache, reads, fetches, sel, fresh>>

-----------------------------------------------------------------------------
(* West Nile virus map and weekly chart: src/Ex6.py                         *)

WnvCols == {"Year", "Week_Reported", "County", "id", "Positive_Cases"}

required_cols == {"Year", "Week_Reported", "County", "id", "Positive_Cases"}

WnvRow(y, w, c, i, n) ==
    [k \in WnvCols |->
        CASE k = "Year" -> y
          [] k = "Week_Reported" -> w
          [] k = "County" -> c
          [] k = "id" -> i
          [] k = "Positive_Cases" -> n]

\* the rows of the CSV file: the week is text until it is coerced
WnvUniverse ==
    { WnvRow(2010, "1", "Kern", 6029, 3),
      WnvRow(2010, "wk?", "Kern", 6029, 2),
      WnvRow(2010, "2", "Alameda", 6001, 1),
      WnvRow(2011, "1", "Kern", 6029, 4) }

WnvExample ==
    << WnvRow(2010, "1", "Kern", 6029, 3),
       WnvRow(2010, "wk?", "Kern", 6029, 2),
       WnvRow(2011, "1", "Kern", 6029, 4) >>

\* West_Nile_Virus_by_County.csv
WnvFiles ==
    {FileOf(WnvCols, recs, {}) : recs \in SeqsUpTo(WnvUniverse, MaxRows) \cup {WnvExample}}
    \cup {FileOf(WnvCols, WnvExample, {c}) : c \in WnvCols}

\* the county names of the model in sorted() order
CountyOrder == <<"Alameda", "Kern">>

\* sorted(S)[:n] for a set S of county names
FirstSorted(S, n) ==
    LET srt == SelectSeq(CountyOrder, LAMBDA c : c \in S)
    IN  {srt[i] : i \in 1..(IF Len(srt) < n THEN Len(srt) ELSE n)}

\* line 10: the CSV file is read by every run
WnvLoad ==
    /\ app = "westnile" /\ pc = "load"
    /\ reads' = reads + 1
    /\ df' = ReadFrame(resource)
    /\ loaded' = df'
    /\ Advance("load", "check")
    /\ UNCHANGED <<app, resource, resource2, cache, fetches, sel, fresh, prev,
                   view, agg, nrecords, extra>>

\* the check passing as soon as one required column is present
WnvSchemaAny(f) == required_cols \cap f.cols # {}

\* the outcome of lines 13-16: TRUE when the run goes on
WnvSchemaOk(f) == required_cols \subseteq f.cols

\* lines 13-16: st.error and st.stop() when a required column is absent
WnvCheck ==
    /\ app = "westnile" /\ pc = "check"
    /\ IF WnvSchemaOk(df)
       THEN Advance("check", "coerce")
       ELSE /\ pc' = "done"
            /\ ran' = ran \cup {"check"}
            /\ outcome' = "stopped"
    /\ UNCHANGED <<app, resource, resource2, cache, reads, fetches, df, loaded,
                   sel, fresh, prev, view, agg, nrecords, extra>>

\* the coercion followed by a dropna: the rows whose week is no number are
\* removed instead of kept
CoerceWeekDropping(f) ==
    LET keep == [i \in DOMAIN f.rows |->
                    f.dtypes["Week_Reported"] = "number"
                    \/ IsNumeral(f.rows[i].v["Week_Reported"])]
        kept == TakeRows(f.rows, keep, 1)
    IN  [cols |-> f.cols,
         dtypes |-> [c \in f.cols |-> IF c = "Week_Reported" THEN "number" ELSE f.dtypes[c]],
         rows |-> [i \in DOMAIN kept |->
                    [kept[i] EXCEPT !.v =
                        [c \in f.cols |->
                            IF c = "Week_Reported" /\ f.dtypes[c] = "text"
                            THEN ToNumeric(kept[i].v[c])
                            ELSE kept[i].v[c]]]]]

\* df["Week_Reported"] = pd.to_numeric(df["Week_Reported"], errors="coerce")
\* (a column that is numeric already is left as it is)
CoerceWeek(f) ==
    [f EXCEPT
        !.dtypes = [c \in f.cols |-> IF c = "Week_Reported" THEN "number" ELSE f.dtypes[c]],
        !.rows =
            [i \in DOMAIN f.rows |->
                [f.rows[i] EXCEPT !.v =
                    [c \in f.cols |->
                        IF c = "Week_Reported" /\ f.dtypes[c] = "text"
                        THEN ToNumeric(f.rows[i].v[c])
                        ELSE f.rows[i].v[c]]]]]

\* line 19; a file without the column makes it raise KeyError
WnvCoerce ==
    /\ app = "westnile" /\ pc = "coerce"
    /\ IF HasCols(df, {"Week_Reported"})
       THEN /\ df' = CoerceWeek(df)
            /\ Advance("coerce", "year")
       ELSE /\ Raise("coerce")
            /\ UNCHANGED df
    /\ UNCHANGED <<app, resource, resource2, cache, reads, fetches, loaded, sel,
                   fresh, prev, view, agg, nrecords, extra>>

\* year_df = df[df["Year"] == selected_year]
\* the year filter and the county filter in one mask
WnvYearAndCountyFilter(f, y) ==
    IF fresh \/ ~sel.custom
    THEN BoolIndex(f, SeriesEQ(f, "Year", y))
    ELSE BoolIndex(f, MaskAnd(SeriesEQ(f, "Year", y), SeriesIsIn(f, "County", sel.counties)))

\* year_df = df[df["Year"] == selected_year]
WnvYearFilter(f, y) == BoolIndex(f, SeriesEQ(f, "Year", y))

\* the year filter assigned back to df (df = df[df["Year"] == selected_year])
WnvYearInPlace ==
    /\ app = "westnile" /\ pc = "year"
    /\ sel' = IF fresh
              THEN [year |-> IF Unique(df, "Year") = {} THEN NaN
                             ELSE SetMin(Unique(df, "Year")),
                    counties |-> {}, custom |-> FALSE]
              ELSE sel
    /\ view' = WnvYearFilter(df, sel'.year)
    /\ df' = view'
    /\ nrecords' = Len(view'.rows)
    /\ Advance("filter", "county_agg")
    /\ UNCHANGED <<app, resource, resource2, cache, reads, fetches, loaded,
                   fresh, prev, agg, extra>>

\* lines 22-26: the year selectbox (first year by default, None without
\* options) and the year filter
WnvYear ==
    /\ app = "westnile" /\ pc = "year"
    /\ IF HasCols(df, {"Year"})
       THEN /\ sel' = IF fresh
                      THEN [year |-> IF Unique(df, "Year") = {} THEN NaN
                                     ELSE SetMin(Unique(df, "Year")),
                            counties |-> {}, custom |-> FALSE]
                      ELSE sel
            /\ view' = WnvYearFilter(df, sel'.year)
            /\ nrecords' = Len(view'.rows)
            /\ Advance("filter", "county_agg")
       ELSE /\ Raise("filter")
            /\ UNCHANGED <<sel, view, nrecords>>
    /\ UNCHANGED <<app, resource, resource2, cache, reads, fetches, df, loaded,
                   fresh, prev, agg, extra>>

\* county_agg: total Positive_Cases by id
WnvCountyAggOf(f) == GroupBySum(f, <<"id">>, "Positive_Cases")

\* lines 29-74: county_agg and the map (the county shapes are named by URL
\* and fetched by the browser, not by the script)
WnvCountyAgg ==
    /\ app = "westnile" /\ pc = "county_agg"
    /\ IF HasCols(view, {"id", "Positive_Cases"})
       THEN /\ agg' = [agg EXCEPT ![1] = WnvCountyAggOf(view)]
            /\ Advance("aggregate", "counties")
       ELSE /\ Raise("aggregate")
            /\ UNCHANGED agg
    /\ UNCHANGED <<app, resource, resource2, cache, reads, fetches, df, loaded,
                   sel, fresh, prev, view, nrecords, extra>>

\* line_df = year_df[year_df["County"].isin(selected_counties)]
WnvCountyFilter(f, S) == BoolIndex(f, SeriesIsIn(f, "County", S))

\* lines 79-87: the county multiselect (the first five counties by default)
\* and the county filter
WnvCounties ==
    /\ app = "westnile" /\ pc = "counties"
    /\ IF HasCols(view, {"County"})
       THEN /\ sel' = IF sel.custom THEN sel
                      ELSE [sel EXCEPT !.counties = FirstSorted(Unique(view, "County"), 5)]
            /\ fresh' = FALSE
            /\ extra' = WnvCountyFilter(view, sel'.counties)
            /\ Advance("line_filter", "weekly")
       ELSE /\ Raise("line_filter")
            /\ UNCHANGED <<sel, fresh, extra>>
    /\ UNCHANGED <<app, resource, resource2, cache, reads, fetches, df, loaded,
                   prev, view, agg, nrecords>>

\* weekly_agg: Positive_Cases by County and Week_Reported
WnvWeeklyAggOf(f) == GroupBySum(f, <<"County", "Week_Reported">>, "Positive_Cases")

\* lines 90-93
WnvWeekly ==
    /\ app = "westnile" /\ pc = "weekly"
    /\ agg' = [agg EXCEPT ![2] = WnvWeeklyAggOf(extra)]
    /\ Advance("weekly", "render")
    /\ UNCHANGED <<app, resource, resource2, cache, reads, fetches, df, loaded,
                   sel, fresh, prev, view, nrecords, extra>>

\* lines 96-117: the line chart and the data table
WnvRender ==
    /\ app = "westnile" /\ pc = "render"
    /\ Finish("charts")
    /\ UNCHANGED <<app, resource, resource2, cache, reads, fetches, df, loaded,
                   sel, fresh, prev, view, agg, nrecords, extra>>

\* the user picks another year (the county multiselect, whose options follow
\* the year, goes back to its default) or other counties
WnvInteract ==
    /\ app = "westnile" /\ pc = "done" /\ ~fresh
    /\ reads < MaxReads
    /\ \/ \E y \in Unique(loaded, "Year") :
            sel' = [year |-> y, counties |-> {}, custom |-> FALSE]
       \/ \E S \in SUBSET Unique(view, "County") :
            sel' = [sel EXCEPT !.counties = S, !.custom = TRUE]
    /\ sel'.year # sel.year \/ sel'.counties # sel.counties
    /\ prev' = IF sel'.year = sel.year /\ outcome = "ok" THEN <<view, agg[1]>> ELSE <<>>
    /\ Restart
    /\ extra' = EmptyFrame
    /\ UNCHANGED <<app, resource, resource2, cache, reads, fetches, fresh>>

-----------------------------------------------------------------------------
(* CO2 emissions and population dashboard: src/ex3.py                       *)

Co2Cols == {"State", "Sector", "Year", "Value"}

Co2Row(st, sec, y, x) ==
    [k \in Co2Cols |->
        CASE k = "State" -> st
          [] k = "Sector" -> sec
          [] k = "Year" -> y
          [] k = "Value" -> x]

Co2Universe ==
    { Co2Row("California", "Population", 2000, 30),
      Co2Row("California", "Transportation", 2001, 5),
      Co2Row("Texas", "Population", 2001, 20),
      Co2Row("Puerto Rico", "Transportation", 2000, 7),
      Co2Row("Texas", "Population", NaN, 20) }

Co2Example ==
    << Co2Row("California", "Population", 2000, 30),
       Co2Row("Texas", "Population", 2001, 20),
       Co2Row("California", "Transportation", 2001, 5) >>

\* co2-population.csv
Co2Files ==
    {FileOf(Co2Cols, recs, {}) : recs \in SeqsUpTo(Co2Universe, MaxRows) \cup {Co2Example}}
    \cup {FileOf(Co2Cols, Co2Example, {c}) : c \in Co2Cols}

\* the dictionary of lines 23-37, in source order
state_to_abbrev ==
    << <<"Alabama", "AL">>, <<"Alaska", "AK">>, <<"Arizona", "AZ">>, <<"Arkansas", "AR">>,
       <<"California", "CA">>, <<"Colorado", "CO">>, <<"Connecticut", "CT">>, <<"Delaware", "DE">>,
       <<"Florida", "FL">>, <<"Georgia", "GA">>, <<"Hawaii", "HI">>, <<"Idaho", "ID">>,
       <<"Illinois", "IL">>, <<"Indiana", "IN">>, <<"Iowa", "IA">>, <<"Kansas", "KS">>,
       <<"Kentucky", "KY">>, <<"Louisiana", "LA">>, <<"Maine", "ME">>, <<"Maryland", "MD">>,
       <<"Massachusetts", "MA">>, <<"Michigan", "MI">>, <<"Minnesota", "MN">>, <<"Mississippi", "MS">>,
       <<"Missouri", "MO">>, <<"Montana", "MT">>, <<"Nebraska", "NE">>, <<"Nevada", "NV">>,
       <<"New Hampshire", "NH">>, <<"New Jersey", "NJ">>, <<"New Mexico", "NM">>, <<"New York", "NY">>,
       <<"North Carolina", "NC">>, <<"North Dakota", "ND">>, <<"Ohio", "OH">>, <<"Oklahoma", "OK">>,
       <<"Oregon", "OR">>, <<"Pennsylvania", "PA">>, <<"Rhode Island", "RI">>, <<"South Carolina", "SC">>,
       <<"South Dakota", "SD">>, <<"Tennessee", "TN">>, <<"Texas", "TX">>, <<"Utah", "UT">>,
       <<"Vermont", "VT">>, <<"Virginia", "VA">>, <<"Washington", "WA">>, <<"West Virginia", "WV">>,
       <<"Wisconsin", "WI">>, <<"Wyoming", "WY">> >>

\* state_to_abbrev.get(name): NaN (here None) for a name that is no key
AbbrevOf(name) ==
    LET hits == {i \in DOMAIN state_to_abbrev : state_to_abbrev[i][1] = name}
    IN  IF hits = {} THEN None ELSE state_to_abbrev[SetMin(hits)][2]

\* df["state_abbrev"] = df["State"].map(state_to_abbrev)
MapAbbrev(f) ==
    [cols |-> f.cols \cup {"state_abbrev"},
     dtypes |-> [c \in f.cols \cup {"state_abbrev"} |->
                   IF c = "state_abbrev" THEN "text" ELSE f.dtypes[c]],
     rows |-> [i \in DOMAIN f.rows |->
                 [ix |-> f.rows[i].ix,
                  v  |-> [c \in f.cols \cup {"state_abbrev"} |->
                            IF c = "state_abbrev" THEN AbbrevOf(f.rows[i].v["State"])
                            ELSE f.rows[i].v[c]]]]]

\* the sector names of the model in sorted() order
SectorOrder == <<"Population", "Transportation">>

\* sorted(S)[0], None for no options
FirstSector(S) ==
    LET srt == SelectSeq(SectorOrder, LAMBDA x : x \in S)
    IN  IF srt = <<>> THEN None ELSE srt[1]

\* line 13: the CSV file is read by every run
Co2Load ==
    /\ app = "co2" /\ pc = "load"
    /\ reads' = reads + 1
    /\ df' = ReadFrame(resource)
    /\ loaded' = df'
    /\ Advance("load", "fetch")
    /\ UNCHANGED <<app, resource, resource2, cache, fetches, sel, fresh, prev,
                   view, agg, nrecords, extra>>

\* lines 18-20: requests.get of the state boundaries, by every run
Co2Fetch ==
    /\ app = "co2" /\ pc = "fetch"
    /\ fetches' = fetches + 1
    /\ Advance("fetch", "prepare")
    /\ UNCHANGED <<app, resource, resource2, cache, reads, df, loaded, sel,
                   fresh, prev, view, agg, nrecords, extra>>

\* line 40
Co2Prepare ==
    /\ app = "co2" /\ pc = "prepare"
    /\ IF HasCols(df, {"State"})
       THEN /\ df' = MapAbbrev(df)
            /\ Advance("prepare", "widgets")
       ELSE /\ Raise("prepare")
            /\ UNCHANGED df
    /\ UNCHANGED <<app, resource, resource2, cache, reads, fetches, loaded, sel,
                   fresh, prev, view, agg, nrecords, extra>>

\* the year widget of a sector: a selectbox over the Population years, a
\* slider over the whole range of years for any other sector
YearKind(sec) == IF sec = "Population" THEN "selectbox" ELSE "slider"

\* df[c].unique(): the values of the column in order of first appearance,
\* a missing value among them
RECURSIVE UniqueSeq(_, _, _)
UniqueSeq(f, c, i) ==
    IF i = 0 THEN <<>>
    ELSE LET before == UniqueSeq(f, c, i - 1)
             x == f.rows[i].v[c]
         IN  IF x \in Range(before) THEN before ELSE Append(before, x)

\* a < b on floats: False whenever one side is NaN
FloatLess(a, b) == a # NaN /\ b # NaN /\ a < b

\* x put into the sorted list srt behind the last element it is not less than
RECURSIVE InsertSorted(_, _, _)
InsertSorted(srt, x, i) ==
    IF i > 0 /\ FloatLess(x, srt[i]) THEN InsertSorted(srt, x, i - 1)
    ELSE SubSeq(srt, 1, i) \o <<x>> \o SubSeq(srt, i + 1, Len(srt))

\* sorted(values) for a short list of floats: the place of a NaN follows
\* from the order of the list, since every comparison with it is False
RECURSIVE Sorted(_, _)
Sorted(values, n) ==
    IF n = 0 THEN <<>>
    ELSE LET srt == Sorted(values, n - 1) IN InsertSorted(srt, values[n], Len(srt))

\* available_years of line 57
PopulationYears(f) ==
    LET pop == BoolIndex(f, SeriesEQ(f, "Sector", "Population"))
        u   == UniqueSeq(pop, "Year", Len(pop.rows))
    IN  Sorted(u, Len(u))

\* the years of the file that are numbers (min() and max() skip NaN)
KnownYears(f) == Unique(f, "Year") \ {NaN}

\* the years the year widget of sector sec offers
YearOptions(f, sec) ==
    IF sec = "Population"
    THEN Range(PopulationYears(f))
    ELSE SetMin(KnownYears(f)) .. SetMax(KnownYears(f))

\* the value of the year widget when it is first shown (index=0, value=year_min)
YearDefault(f, sec) ==
    IF sec = "Population" THEN PopulationYears(f)[1] ELSE SetMin(KnownYears(f))

\* lines 52-62: the sector selectbox and the year widget
Co2Widgets ==
    /\ app = "co2" /\ pc = "widgets"
    /\ IF /\ HasCols(df, {"Sector", "Year"})
          /\ \/ (IF fresh THEN FirstSector(Unique(df, "Sector")) ELSE sel.sector) = "Population"
             \/ KnownYears(df) # {}
       THEN LET sec == IF fresh THEN FirstSector(Unique(df, "Sector")) ELSE sel.sector
                keep == ~fresh /\ sel.kind = YearKind(sec)
            IN  /\ sel' = [sector |-> sec,
                           kind   |-> YearKind(sec),
                           year   |-> IF keep THEN sel.year ELSE YearDefault(df, sec)]
                /\ fresh' = FALSE
                /\ Advance("widgets", "filter")
       ELSE /\ Raise("widgets")
            /\ UNCHANGED <<sel, fresh>>
    /\ UNCHANGED <<app, resource, resource2, cache, reads, fetches, df, loaded,
                   prev, view, agg, nrecords, extra>>

\* filtered_df = df[(df["Sector"] == selected_sector) & (df["Year"] == selected_year)]
Co2ApplyFilters(f, s) ==
    BoolIndex(f, MaskAnd(SeriesEQ(f, "Sector", s.sector), SeriesEQ(f, "Year", s.year)))

\* line 69
Co2Filter ==
    /\ app = "co2" /\ pc = "filter"
    /\ view' = Co2ApplyFilters(df, sel)
    /\ nrecords' = Len(view'.rows)
    /\ Advance("filter", "render")
    /\ UNCHANGED <<app, resource, resource2, cache, reads, fetches, df, loaded,
                   sel, fresh, prev, agg, extra>>

\* the map's click component and the panel under it: the click event the
\* component holds (<<>> for none), what the panel shows, and state_df
NoClick == [click |-> <<>>, panel |-> "none", state_df |-> EmptyFrame]

\* the events the click component can hand to the script: a point without
\* custom data, or one that carries an abbreviation
ClickPayloads ==
    {[customdata |-> <<>>]} \cup {[customdata |-> <<a>>] : a \in {"CA", "TX", "ZZ"}}

\* next((name for name, abbrev in state_to_abbrev.items() if abbrev == clicked), None)
ReverseOf(abbr) ==
    LET hits == {i \in DOMAIN state_to_abbrev : state_to_abbrev[i][2] = abbr}
    IN  IF hits = {} THEN None ELSE state_to_abbrev[SetMin(hits)][1]

\* the time series of a state over every sector
Co2StateSeriesAllSectors(f, name, sector) == BoolIndex(f, SeriesEQ(f, "State", name))

\* state_df = df[(df["State"] == state_name) & (df["Sector"] == selected_sector)]
Co2StateSeries(f, name, sector) ==
    BoolIndex(f, MaskAnd(SeriesEQ(f, "State", name), SeriesEQ(f, "Sector", sector)))

\* lines 111-139: the panel under the map
Co2Panel(click, f, sector) ==
    IF click = <<>> \/ click[1].customdata = <<>>
    THEN [click |-> click, panel |-> "hint", state_df |-> EmptyFrame]
    ELSE LET state_name == ReverseOf(click[1].customdata[1])
         IN  IF state_name # None
             THEN [click |-> click, panel |-> "series",
                   state_df |-> Co2StateSeries(f, state_name, sector)]
             ELSE [click |-> click, panel |-> "not_found", state_df |-> EmptyFrame]

\* lines 71-139: the warning for an empty view, else the map (which reads
\* the Value column) and the panel under it
Co2Render ==
    /\ app = "co2" /\ pc = "render"
    /\ IF view.rows = <<>>
       THEN /\ Finish("charts")
            /\ UNCHANGED extra
       ELSE IF HasCols(view, {"Value"})
       THEN /\ extra' = Co2Panel(extra.click, df, sel.sector)
            /\ Finish("charts")
       ELSE /\ Raise("charts")
            /\ UNCHANGED extra
    /\ UNCHANGED <<app, resource, resource2, cache, reads, fetches, df, loaded,
                   sel, fresh, prev, view, agg, nrecords>>

\* the user clicks a state on the map; the component reruns the script
Co2Click ==
    /\ app = "co2" /\ pc = "done" /\ "charts" \in ran /\ outcome = "ok"
    /\ view.rows # <<>>
    /\ reads < MaxReads
    /\ \E p \in ClickPayloads : extra' = [NoClick EXCEPT !.click = <<p>>]
    /\ extra'.click # extra.click
    /\ prev' = <<view>>
    /\ Restart
    /\ UNCHANGED <<app, resource, resource2, cache, reads, fetches, sel, fresh>>

\* the user picks another sector, or another year on the year widget
Co2Interact ==
    /\ app = "co2" /\ pc = "done" /\ ~fresh
    /\ reads < MaxReads
    /\ \/ \E sec \in Unique(df, "Sector") : sel' = [sel EXCEPT !.sector = sec]
       \/ \E y \in YearOptions(df, sel.sector) : sel' = [sel EXCEPT !.year = y]
    /\ sel' # sel
    /\ prev' = <<>>
    /\ Restart
    /\ extra' = NoClick
    /\ UNCHANGED <<app, resource, resource2, cache, reads, fetches, fresh>>

-----------------------------------------------------------------------------
(* Bighorn sheep dominance network: src/ex4.py                              *)

AgeCols == {"Sheep_ID", "Sheep_Age"}

EdgeCols == {"Source_Sheep_ID", "Target_Sheep_ID", "Weight"}

AgeRow(i, a) == [k \in AgeCols |-> IF k = "Sheep_ID" THEN i ELSE a]

EdgeRow(s, t, w) ==
    [k \in EdgeCols |->
        CASE k = "Source_Sheep_ID" -> s
          [] k = "Target_Sheep_ID" -> t
          [] k = "Weight" -> w]

AgeUniverse == {AgeRow(1, 5), AgeRow(2, 7)}

EdgeUniverse == {EdgeRow(1, 2, 1), EdgeRow(1, 2, 4), EdgeRow(2, 1, 2), EdgeRow(1, 3, 1)}

AgeExample == <<AgeRow(1, 5), AgeRow(2, 7)>>

EdgeExample == <<EdgeRow(1, 2, 1), EdgeRow(2, 1, 2)>>

\* sheep_age.csv
AgeFiles ==
    {FileOf(AgeCols, recs, {}) : recs \in SeqsUpTo(AgeUniverse, MaxRows)}
    \cup {FileOf(AgeCols, AgeExample, {c}) : c \in AgeCols}

\* sheep_edges.csv
EdgeFiles ==
    {FileOf(EdgeCols, recs, {}) : recs \in SeqsUpTo(EdgeUniverse, MaxRows)}
    \cup {FileOf(EdgeCols, EdgeExample, {c}) : c \in EdgeCols}

\* nx.DiGraph(): nodes, the age attribute of the nodes that have one, and
\* the weight of each edge
EmptyGraph == [nodes |-> {}, age |-> <<>>, edges |-> <<>>]

NoSheep == [edges_df |-> EmptyFrame, G |-> EmptyGraph, in_degree |-> <<>>,
            out_degree |-> <<>>, titles |-> {}]

\* f with x mapped to y (a dictionary assignment)
Put(f, x, y) == [k \in DOMAIN f \cup {x} |-> IF k = x THEN y ELSE f[k]]

\* G.add_node(sheep_id, age=age)
AddNode(G, i, a) == [G EXCEPT !.nodes = @ \cup {i}, !.age = Put(@, i, a)]

\* add_edge of an undirected graph: the edge is entered in both directions
AddEdgeUndirected(G, s, t, w) ==
    [G EXCEPT !.nodes = @ \cup {s, t},
              !.edges = Put(Put(@, <<s, t>>, w), <<t, s>>, w)]

\* G.add_edge(src, tgt, weight=weight): the end points become nodes
AddEdge(G, s, t, w) ==
    [G EXCEPT !.nodes = @ \cup {s, t}, !.edges = Put(@, <<s, t>>, w)]

RECURSIVE AddNodes(_, _, _)
AddNodes(G, rows, i) ==
    IF i > Len(rows) THEN G
    ELSE AddNodes(AddNode(G, rows[i].v["Sheep_ID"], rows[i].v["Sheep_Age"]), rows, i + 1)

RECURSIVE AddEdges(_, _, _)
AddEdges(G, rows, i) ==
    IF i > Len(rows) THEN G
    ELSE AddEdges(AddEdge(G, rows[i].v["Source_Sheep_ID"], rows[i].v["Target_Sheep_ID"],
                          rows[i].v["Weight"]), rows, i + 1)

\* dict(G.in_degree()), dict(G.out_degree())
InDegree(G) == [n \in G.nodes |-> Cardinality({e \in DOMAIN G.edges : e[2] = n})]

OutDegree(G) == [n \in G.nodes |-> Cardinality({e \in DOMAIN G.edges : e[1] = n})]

\* load_data() under @st.cache: the two files are read on the first call only
SheepLoad ==
    /\ app = "sheep" /\ pc = "load"
    /\ IF cache = <<>>
       THEN /\ reads' = reads + 1
            /\ cache' = << <<ReadFrame(resource), ReadFrame(resource2)>> >>
       ELSE UNCHANGED <<reads, cache>>
    /\ df' = cache'[1][1]
    /\ loaded' = df'
    /\ extra' = [NoSheep EXCEPT !.edges_df = cache'[1][2]]
    /\ Advance("load", "nodes")
    /\ UNCHANGED <<app, resource, resource2, fetches, sel, fresh, prev, view,
                   agg, nrecords>>

\* lines 31-37: a row of a table without the column raises KeyError
SheepNodes ==
    /\ app = "sheep" /\ pc = "nodes"
    /\ IF df.rows = <<>> \/ HasCols(df, AgeCols)
       THEN /\ extra' = [extra EXCEPT !.G = AddNodes(EmptyGraph, df.rows, 1)]
            /\ Advance("graph", "edges")
       ELSE /\ Raise("graph")
            /\ UNCHANGED extra
    /\ UNCHANGED <<app, resource, resource2, cache, reads, fetches, df, loaded,
                   sel, fresh, prev, view, agg, nrecords>>

\* lines 40-44
SheepEdges ==
    /\ app = "sheep" /\ pc = "edges"
    /\ IF extra.edges_df.rows = <<>> \/ HasCols(extra.edges_df, EdgeCols)
       THEN /\ extra' = [extra EXCEPT !.G = AddEdges(@, extra.edges_df.rows, 1)]
            /\ Advance("edges", "degrees")
       ELSE /\ Raise("edges")
            /\ UNCHANGED extra
    /\ UNCHANGED <<app, resource, resource2, cache, reads, fetches, df, loaded,
                   sel, fresh, prev, view, agg, nrecords>>

\* lines 47-50
SheepDegrees ==
    /\ app = "sheep" /\ pc = "degrees"
    /\ extra' = [extra EXCEPT !.in_degree = InDegree(extra.G),
                              !.out_degree = OutDegree(extra.G)]
    /\ Advance("degrees", "tooltips")
    /\ UNCHANGED <<app, resource, resource2, cache, reads, fetches, df, loaded,
                   sel, fresh, prev, view, agg, nrecords>>

\* lines 59-68: G.nodes[node_id]["age"] raises KeyError for a node that was
\* added by an edge only
SheepTooltips ==
    /\ app = "sheep" /\ pc = "tooltips"
    /\ IF extra.G.nodes \subseteq DOMAIN extra.G.age
       THEN /\ extra' = [extra EXCEPT !.titles =
                           {<<n, extra.G.age[n], extra.in_degree[n], extra.out_degree[n]>> :
                               n \in extra.G.nodes}]
            /\ Finish("tooltips")
       ELSE /\ Raise("tooltips")
            /\ UNCHANGED extra
    /\ UNCHANGED <<app, resource, resource2, cache, reads, fetches, df, loaded,
                   sel, fresh, prev, view, agg, nrecords>>

-----------------------------------------------------------------------------
(* Any script: a rerun that leaves the filter widgets as they are (the     *)
(* browser's rerun, or a widget that is no filter)                         *)

Rerun ==
    /\ pc = "done"
    /\ reads < MaxReads
    /\ prev' = IF "filter" \in ran /\ outcome = "ok" THEN <<view>> ELSE <<>>
    /\ Restart
    /\ extra' = CASE app = "westnile" -> EmptyFrame
                   [] app = "sheep" -> NoSheep
                   [] app = "olympics" -> [extra EXCEPT !.result = <<>>]
                   [] app = "co2" -> [NoClick EXCEPT !.click = extra.click]
                   [] OTHER -> extra
    /\ UNCHANGED <<app, resource, resource2, cache, reads, fetches, sel, fresh>>

-----------------------------------------------------------------------------

NoFile == [cols |-> {}, recs |-> <<>>]

InitOlympics ==
    /\ app = "olympics"
    /\ resource \in OlyFiles
    /\ resource2 = NoFile
    /\ extra = NoBreakdown

InitCo2 ==
    /\ app = "co2"
    /\ resource \in Co2Files
    /\ resource2 = NoFile
    /\ extra = NoClick

InitSheep ==
    /\ app = "sheep"
    /\ resource \in AgeFiles
    /\ resource2 \in EdgeFiles
    /\ extra = NoSheep

InitWestNile ==
    /\ app = "westnile"
    /\ resource \in WnvFiles
    /\ resource2 = NoFile
    /\ extra = EmptyFrame

Init ==
    /\ \/ InitOlympics
       \/ InitWestNile
       \/ InitCo2
       \/ InitSheep
    /\ cache = <<>>
    /\ reads = 0
    /\ fetches = 0
    /\ pc = "load"
    /\ outcome = "running"
    /\ ran = {}
    /\ df = EmptyFrame
    /\ loaded = EmptyFrame
    /\ sel = NoSel
    /\ fresh = TRUE
    /\ prev = <<>>
    /\ view = EmptyFrame
    /\ agg = NoAgg
    /\ nrecords = 0

Next ==
    \/ OlyLoad
    \/ OlyWidgets
    \/ OlyFilter
    \/ OlyAggregate
    \/ OlyRender
    \/ OlyInteract
    \/ OlyPick
    \/ WnvLoad
    \/ WnvCheck
    \/ WnvCoerce
    \/ WnvYear
    \/ WnvCountyAgg
    \/ WnvCounties
    \/ WnvWeekly
    \/ WnvRender
    \/ WnvInteract
    \/ Co2Load
    \/ Co2Fetch
    \/ Co2Prepare
    \/ Co2Widgets
    \/ Co2Filter
    \/ Co2Render
    \/ Co2Interact
    \/ Co2Click
    \/ SheepLoad
    \/ SheepNodes
    \/ SheepEdges
    \/ SheepDegrees
    \/ SheepTooltips
    \/ Rerun

Spec == Init /\ [][Next]_vars

-----------------------------------------------------------------------------
(* The Olympics filter as a function of its inputs: the script has loaded a *)
(* dataset with the full schema, and the filter of lines 322-328 is given   *)
(* any selection, the two ends of the year range in either order.           *)

FilterSelections(f) ==
    {[years |-> <<lo, hi>>, sports |-> S, countries |-> C, genders |-> G] :
        lo \in Unique(f, "Year"), hi \in Unique(f, "Year"),
        S \in SUBSET Unique(f, "Sport"), C \in SUBSET Unique(f, "Country"),
        G \in SUBSET all_genders}

FilterInit ==
    /\ app = "olympics"
    /\ resource \in {r \in OlyFiles : r.cols = OlyCols /\ r.recs # <<>>}
    /\ resource2 = NoFile
    /\ df = ReadFrame(resource)
    /\ loaded = df
    /\ cache = <<df>>
    /\ reads = 1
    /\ fetches = 0
    /\ sel \in FilterSelections(df)
    /\ fresh = FALSE
    /\ pc = "filter"
    /\ ran = {"load", "widgets"}
    /\ outcome = "running"
    /\ prev = <<>>
    /\ view = EmptyFrame
    /\ agg = NoAgg
    /\ nrecords = 0
    /\ extra = NoBreakdown

FilterNext ==
    \/ OlyFilter
    \/ OlyAggregate
    \/ OlyRender

FilterSpec == FilterInit /\ [][FilterNext]_vars

-----------------------------------------------------------------------------
(* The five groupby statements of lines 336-373 taken one at a time, in any *)
(* order: each is the statement of the script, run on the df_filtered of a  *)
(* run that has loaded a dataset with the full schema and filtered it.      *)

\* selections the widgets can hold: an ordered year range, any genders
AggSelections(f) ==
    {s \in FilterSelections(f) :
        /\ s.years[1] <= s.years[2]
        /\ s.sports = Unique(f, "Sport")
        /\ s.countries = Unique(f, "Country")}

AggInit ==
    /\ app = "olympics"
    /\ resource \in {r \in OlyFiles : r.cols = OlyCols /\ r.recs # <<>>}
    /\ resource2 = NoFile
    /\ df = ReadFrame(resource)
    /\ loaded = df
    /\ cache = <<df>>
    /\ reads = 1
    /\ fetches = 0
    /\ sel \in AggSelections(df)
    /\ fresh = FALSE
    /\ pc = "aggregate"
    /\ ran = {"load", "widgets", "filter"}
    /\ outcome = "running"
    /\ prev = <<>>
    /\ view = OlyApplyFilters(df, sel)
    /\ agg = NoAgg
    /\ nrecords = Len(view.rows)
    /\ extra = NoBreakdown

\* one groupby statement: it assigns its own result and nothing else
OlyAggregateOne(j) ==
    /\ app = "olympics" /\ pc = "aggregate"
    /\ OlyAggNames[j] \notin ran
    /\ agg' = [agg EXCEPT ![j] = OlyAggregateOf(view, j)]
    /\ ran' = ran \cup {OlyAggNames[j]}
    /\ pc' = IF Range(OlyAggNames) \subseteq ran' THEN "render" ELSE "aggregate"
    /\ UNCHANGED <<app, resource, resource2, cache, reads, fetches, outcome, df,
                   loaded, sel, fresh, prev, view, nrecords, extra>>

AggNext ==
    \/ \E j \in DOMAIN OlyAggNames : OlyAggregateOne(j)
    \/ OlyRender

AggSpec == AggInit /\ [][AggNext]_vars

-----------------------------------------------------------------------------
(* Where a run stands *)

\* the filtered view of this run has been computed
ViewReady ==
    CASE app = "olympics" -> pc \in {"aggregate", "render"} \/ "aggregate" \in ran
      [] app = "westnile" -> pc = "county_agg" \/ "aggregate" \in ran
      [] app = "co2"      -> pc = "render" \/ "charts" \in ran
      [] OTHER            -> FALSE

\* every aggregate of this run has been computed
AggregatesReady ==
    CASE app = "olympics" -> pc = "render" \/ "charts" \in ran
      [] app = "westnile" -> pc = "render" \/ "charts" \in ran
      [] OTHER            -> FALSE

\* the index labels of the rows of a frame
Labels(f) == {f.rows[i].ix : i \in DOMAIN f.rows}

-----------------------------------------------------------------------------
(* C1 *)

\* the filter condition of the Olympics pipeline on one record
OlyPasses(r, s) ==
    /\ s.years[1] <= r["Year"] /\ r["Year"] <= s.years[2]
    /\ r["Sport"] \in s.sports
    /\ r["Country"] \in s.countries
    /\ r["Gender"] \in s.genders

\* C1: in the Olympics pipeline a record of the dataset is in the
\* FilteredView if and only if min <= Year <= max (both ends inclusive) and
\* its Sport, Country and Gender are among the selected ones.
C1_FilterIsConjunction ==
    (app = "olympics" /\ ViewReady) =>
        \A i \in DOMAIN df.rows :
            (df.rows[i].ix \in Labels(view)) <=> OlyPasses(df.rows[i].v, sel)

\* a view that keeps a record at the lower end of a proper sub-range and
\* leaves another record out
C1_Witness ==
    /\ app = "olympics" /\ ViewReady
    /\ sel.genders # all_genders
    /\ \E i \in DOMAIN df.rows :
          df.rows[i].ix \in Labels(view) /\ df.rows[i].v["Year"] = sel.years[1]
    /\ \E i \in DOMAIN df.rows : df.rows[i].ix \notin Labels(view)

-----------------------------------------------------------------------------
(* C2 *)

\* the sum of column c over all rows of a frame
ColumnSum(f, c) == SumOver(f.rows, DOMAIN f.rows, c)

\* C2: every aggregate derived from a FilteredView accounts for every record
\* of it: the counts of each Olympics aggregate add up to the number of view
\* records, the West Nile sums add up to the sum of Positive_Cases over the
\* view they are derived from; records with a missing grouping value included.
C2_AggregatesAccountForView ==
    AggregatesReady =>
        /\ app = "olympics" =>
              \A j \in DOMAIN OlyAggNames : Total(agg[j]) = Len(view.rows)
        /\ app = "westnile" =>
              /\ Total(agg[1]) = ColumnSum(view, "Positive_Cases")
              /\ Total(agg[2]) = ColumnSum(extra, "Positive_Cases")

-----------------------------------------------------------------------------
(* C3 *)

\* C3: in the West Nile pipeline the weekly aggregate accounts for every
\* record of the county-filtered view, a record whose week became the
\* sentinel included: the sums add up to the Positive_Cases of the view.
C3_WeeklyAccountsForSentinel ==
    (app = "westnile" /\ AggregatesReady) =>
        Total(agg[2]) = ColumnSum(extra, "Positive_Cases")

-----------------------------------------------------------------------------
(* C4 *)

\* C4: in the West Nile pipeline, when the loaded table lacks a required
\* column, the check reports the error and halts the run: no coercion,
\* filter, aggregation or chart step runs after the check.
C4_MissingColumnsHalt ==
    (app = "westnile" /\ "check" \in ran /\ ~(required_cols \subseteq loaded.cols)) =>
        /\ pc = "done"
        /\ outcome = "stopped"
        /\ ran = {"load", "check"}

\* a run that was stopped by the check
C4_Witness ==
    /\ app = "westnile"
    /\ outcome = "stopped"
    /\ ~(required_cols \subseteq loaded.cols)

-----------------------------------------------------------------------------
(* C5 *)

\* the files hold every column the script uses
SchemaComplete ==
    CASE app = "olympics" -> OlyCols \subseteq resource.cols
      [] app = "co2"      -> Co2Cols \subseteq resource.cols
      [] app = "sheep"    -> AgeCols \subseteq resource.cols /\ EdgeCols \subseteq resource2.cols
      [] OTHER            -> TRUE

\* the steps that filter, aggregate, build the graph or draw
WorkSteps == {"filter", "aggregate", "graph", "edges", "degrees", "tooltips", "charts"}

\* C5: in the Olympics, CO2 and sheep pipelines a file that lacks a used
\* column ends the run in a reported failure before any filter, aggregation
\* or graph-building step is attempted on the dataset.
C5_SchemaCheckedAtLoad ==
    (app \in {"olympics", "co2", "sheep"} /\ ~SchemaComplete /\ pc = "done") =>
        /\ outcome \in {"stopped", "exception"}
        /\ ran \cap WorkSteps = {}

-----------------------------------------------------------------------------
(* C6 *)

\* the records of a frame that satisfy the Olympics filter condition
OlyExpectedView(f, s) ==
    [cols |-> f.cols, dtypes |-> f.dtypes,
     rows |-> SelectSeq(f.rows, LAMBDA r : OlyPasses(r.v, s))]

\* C6: after any sequence of filter changes the record count, the
\* FilteredView and the five aggregates handed to the charts are those of
\* the current filter selections applied to the loaded Dataset.
C6_NothingStale ==
    (app = "olympics" /\ AggregatesReady) =>
        /\ view = OlyExpectedView(loaded, sel)
        /\ nrecords = Len(OlyExpectedView(loaded, sel).rows)
        /\ \A j \in DOMAIN OlyAggNames :
              agg[j] = GroupBySize(OlyExpectedView(loaded, sel), OlyAggKeys[j])

\* a completed run after a filter change that narrowed the view
C6_Witness ==
    /\ app = "olympics" /\ pc = "done" /\ outcome = "ok"
    /\ sel # OlyDefaults(loaded)
    /\ view.rows # <<>>
    /\ Len(view.rows) < Len(loaded.rows)
    /\ agg[1] # <<>>

-----------------------------------------------------------------------------
(* C7 *)

\* C7: within one process the dataset file and the geographic-boundary
\* resource are each read at most once, whatever the interactions.
C7_ReadAtMostOnce == reads <= 1 /\ fetches <= 1

-----------------------------------------------------------------------------
(* C8 *)

\* C8 as stated: once load has returned, the Dataset equals the Dataset as
\* loaded at every later step of the run.
C8_NeverMutated == ("load" \in ran) => SameFrame(df, loaded)

\* the columns a preparation statement of this run has rewritten
Rewritten == IF app = "westnile" /\ "coerce" \in ran THEN {"Week_Reported"} ELSE {}

\* the columns a preparation statement of this run has added
Added == IF app = "co2" /\ "prepare" \in ran /\ "State" \in loaded.cols
         THEN {"state_abbrev"} ELSE {}

\* C8 amended: after load only the preparation statements write to the
\* Dataset (West Nile rewrites Week_Reported, CO2 adds state_abbrev); every
\* other column of every record, the records themselves and their labels
\* stay as loaded through filtering, aggregation and the charts.
C8_OnlyPreparationWrites ==
    ("load" \in ran) =>
        /\ df.cols = loaded.cols \cup Added
        /\ Len(df.rows) = Len(loaded.rows)
        /\ \A i \in DOMAIN df.rows :
              /\ df.rows[i].ix = loaded.rows[i].ix
              /\ \A c \in loaded.cols \ Rewritten :
                    /\ df.dtypes[c] = loaded.dtypes[c]
                    /\ df.rows[i].v[c] = loaded.rows[i].v[c]

\* a run that has filtered and aggregated a prepared Dataset
C8_Witness ==
    /\ app = "westnile" /\ pc = "done" /\ outcome = "ok"
    /\ ~SameFrame(df, loaded)
    /\ Len(view.rows) < Len(df.rows)
    /\ agg[2] # <<>>

-----------------------------------------------------------------------------
(* C9 *)

\* the row of frame f labelled x
RowAt(f, x) == f.rows[CHOOSE i \in DOMAIN f.rows : f.rows[i].ix = x]

\* v is a sub-collection of f: its rows are rows of f, unchanged, in order
SubFrame(v, f) ==
    /\ v.cols = f.cols
    /\ \A j \in DOMAIN v.rows :
          /\ v.rows[j].ix \in Labels(f)
          /\ v.rows[j] = RowAt(f, v.rows[j].ix)
    /\ \A j, k \in DOMAIN v.rows : j < k => v.rows[j].ix < v.rows[k].ix

\* C9: the FilteredView is a sub-collection of the Dataset (every record of
\* the view is a record of the Dataset, unchanged), and a rerun with the same
\* filter selections on the same data yields the view of the run before.
C9_SubsetAndIdempotent ==
    ViewReady =>
        /\ SubFrame(view, df)
        /\ prev # <<>> => view = prev[1]

\* a rerun with unchanged filters that has produced a proper, non-empty view
C9_Witness ==
    /\ ViewReady
    /\ prev # <<>>
    /\ view.rows # <<>>
    /\ Len(view.rows) < Len(df.rows)
    /\ view.rows[1].ix > 0

-----------------------------------------------------------------------------
(* C10 *)

\* C10: each Olympics count aggregate has exactly one entry per distinct
\* grouping-key tuple occurring in the view, whose value is the number of
\* view records bearing the tuple.
C10_OneEntryPerKeyTuple ==
    (app = "olympics" /\ AggregatesReady) =>
        \A j \in DOMAIN OlyAggNames :
            /\ DOMAIN agg[j] = {Key(view.rows[i], OlyAggKeys[j]) : i \in DOMAIN view.rows}
            /\ \A k \in DOMAIN agg[j] :
                  agg[j][k] = Cardinality({i \in DOMAIN view.rows :
                                              Key(view.rows[i], OlyAggKeys[j]) = k})

-----------------------------------------------------------------------------
(* The medal breakdown lookup *)

\* the breakdown panel of a completed Olympics run is on the page
BreakdownShown == app = "olympics" /\ pc = "done" /\ "charts" \in ran

\* the view's records with the selected (Year, Country) pair
PairRows ==
    {i \in DOMAIN view.rows :
        /\ extra.year = <<view.rows[i].v["Year"]>>
        /\ extra.country = <<view.rows[i].v["Country"]>>}

\* C11: for the selected (Year, Country) pair the lookup result is non-empty
\* when the view holds a record with that pair -- one row per medal type the
\* pair's records have, each with a count of at least 1 -- and empty when the
\* view holds none; the run raises no error either way.
C11_LookupMatchesView ==
    BreakdownShown =>
        /\ outcome = "ok"
        /\ IF PairRows # {}
           THEN /\ DOMAIN extra.result # {}
                /\ {k[3] : k \in DOMAIN extra.result}
                       = {view.rows[i].v["Medal"] : i \in PairRows}
                /\ \A k \in DOMAIN extra.result : extra.result[k] >= 1
           ELSE DOMAIN extra.result = {}

-----------------------------------------------------------------------------
(* Coercion of the week column *)

\* the West Nile run has executed the coercion of line 19
Coerced == app = "westnile" /\ "coerce" \in ran

\* the row of the file is one whose week is a non-numeric token
BadWeek(i) ==
    /\ loaded.dtypes["Week_Reported"] = "text"
    /\ ~IsNumeral(loaded.rows[i].v["Week_Reported"])

\* C12: the coercion keeps every record: the Dataset has as many records
\* after it as before, a record whose week is a non-numeric token has the
\* sentinel (missing) week afterwards, and the other fields of every record
\* are as they were read.
C12_CoercionKeepsRecords ==
    Coerced =>
        /\ Len(df.rows) = Len(loaded.rows)
        /\ \A i \in DOMAIN loaded.rows :
              /\ df.rows[i].ix = loaded.rows[i].ix
              /\ BadWeek(i) => df.rows[i].v["Week_Reported"] = NaN
              /\ \A c \in loaded.cols \ {"Week_Reported"} :
                    df.rows[i].v[c] = loaded.rows[i].v[c]

\* a file with a non-numeric week token has been coerced
C12_Witness ==
    /\ Coerced
    /\ \E i \in DOMAIN loaded.rows :
          BadWeek(i) /\ i \in DOMAIN df.rows /\ df.rows[i].v["Week_Reported"] = NaN

-----------------------------------------------------------------------------
(* A year range whose minimum is above its maximum *)

\* the filter has run with a range whose lower end is above its upper end
InvertedRange == app = "olympics" /\ "filter" \in ran /\ sel.years[1] > sel.years[2]

\* C13: a year range with min > max selects no record: the view is empty,
\* the record count is 0, every aggregate computed from it is empty, the
\* breakdown is empty, and the run raises no error.
C13_InvertedRangeSelectsNothing ==
    InvertedRange =>
        /\ view.rows = <<>>
        /\ nrecords = 0
        /\ outcome # "exception"
        /\ "aggregate" \in ran => \A j \in DOMAIN agg : DOMAIN agg[j] = {}
        /\ pc = "done" => outcome = "ok" /\ DOMAIN extra.result = {}

\* a run over a dataset with records the other three filters let through has
\* completed with an inverted year range
C13_Witness ==
    /\ InvertedRange
    /\ pc = "done"
    /\ "charts" \in ran
    /\ \E i \in DOMAIN df.rows :
          /\ df.rows[i].v["Sport"] \in sel.sports
          /\ df.rows[i].v["Country"] \in sel.countries
          /\ df.rows[i].v["Gender"] \in sel.genders

-----------------------------------------------------------------------------
(* A membership filter with nothing selected *)

\* the Olympics filter has run on a dataset with the full schema and one of
\* the three multiselects is empty
OlyNothingSelected ==
    /\ app = "olympics" /\ SchemaComplete /\ "filter" \in ran
    /\ sel.sports = {} \/ sel.countries = {} \/ sel.genders = {}

\* the West Nile county filter has run with no county selected
WnvNothingSelected ==
    app = "westnile" /\ "line_filter" \in ran /\ sel.counties = {}

\* C14: with an empty selected subset in a membership filter the filtered
\* view is empty whatever the other filters are (df_filtered in the
\* Olympics, line_df in the West Nile pipeline), every aggregate derived from
\* it is empty, and the run completes without an error.
C14_EmptySelectionSelectsNothing ==
    /\ OlyNothingSelected =>
          /\ view.rows = <<>>
          /\ nrecords = 0
          /\ "aggregate" \in ran => \A j \in DOMAIN agg : DOMAIN agg[j] = {}
          /\ outcome # "exception"
          /\ pc = "done" => outcome = "ok" /\ DOMAIN extra.result = {}
    /\ WnvNothingSelected =>
          /\ extra.rows = <<>>
          /\ "weekly" \in ran => DOMAIN agg[2] = {}
          /\ outcome # "exception"
          /\ pc = "done" => outcome = "ok"

\* a completed Olympics run over a dataset with records, with no sport
\* selected and the other filters at values that let records through
C14_Witness ==
    /\ OlyNothingSelected
    /\ pc = "done"
    /\ "charts" \in ran
    /\ sel.sports = {}
    /\ \E i \in DOMAIN df.rows :
          /\ df.rows[i].v["Year"] >= sel.years[1]
          /\ df.rows[i].v["Year"] <= sel.years[2]
          /\ df.rows[i].v["Country"] \in sel.countries
          /\ df.rows[i].v["Gender"] \in sel.genders

-----------------------------------------------------------------------------
(* Independence of the aggregates *)

\* the aggregate OlyAggNames[j] has been computed in this run
Computed(j) == OlyAggNames[j] \in ran \/ "aggregate" \in ran

\* C15: the five Olympics aggregates are independent of each other: in
\* whatever order they are computed, each one computed so far is the grouping
\* of the filtered view by its own columns, the ones not yet computed are
\* untouched, and the filtered view is still the filter's result.
C15_AggregatesIndependent ==
    (app = "olympics" /\ SchemaComplete /\ "filter" \in ran) =>
        /\ SameFrame(view, OlyExpectedView(df, sel))
        /\ nrecords = Len(view.rows)
        /\ \A j \in DOMAIN OlyAggNames :
              agg[j] = IF Computed(j) THEN GroupBySize(view, OlyAggKeys[j]) ELSE <<>>

\* the last aggregate of the script has been computed before the first and
\* the second, over a view that holds records
C15_Witness ==
    /\ app = "olympics"
    /\ pc = "aggregate"
    /\ "breakdown_full" \in ran
    /\ "total_by_year" \notin ran
    /\ "medal_distribution" \notin ran
    /\ DOMAIN agg[5] # {}

-----------------------------------------------------------------------------
(* Degrees of the sheep network *)

\* the sheep run has computed the degrees of the graph
DegreesReady == app = "sheep" /\ "degrees" \in ran

\* the rows of the edge list, and its (source, target) pairs
EdgeList == extra.edges_df.rows

EdgePairs ==
    {<<EdgeList[i].v["Source_Sheep_ID"], EdgeList[i].v["Target_Sheep_ID"]>> :
        i \in DOMAIN EdgeList}

\* the last row of the edge list that holds the pair p
LastRowOf(p) ==
    SetMax({i \in DOMAIN EdgeList :
                <<EdgeList[i].v["Source_Sheep_ID"], EdgeList[i].v["Target_Sheep_ID"]>> = p})

\* C16: every node's in-degree is the number of distinct sources with an
\* edge into it and its out-degree the number of distinct targets it has an
\* edge to; the in-degrees and the out-degrees both add up to the number of
\* distinct (source, target) pairs of the edge list, and a repeated pair is
\* one edge with the weight of its last occurrence.
C16_DegreesCountDistinctPairs ==
    DegreesReady =>
        /\ \A n \in extra.G.nodes :
              /\ extra.in_degree[n] = Cardinality({p[1] : p \in {q \in EdgePairs : q[2] = n}})
              /\ extra.out_degree[n] = Cardinality({p[2] : p \in {q \in EdgePairs : q[1] = n}})
        /\ SumValues(extra.in_degree, DOMAIN extra.in_degree) = Cardinality(EdgePairs)
        /\ SumValues(extra.out_degree, DOMAIN extra.out_degree) = Cardinality(EdgePairs)
        /\ DOMAIN extra.G.edges = EdgePairs
        /\ \A p \in EdgePairs : extra.G.edges[p] = EdgeList[LastRowOf(p)].v["Weight"]

\* the degrees are computed for an edge list that repeats a pair with another
\* weight
C16_Witness ==
    /\ DegreesReady
    /\ \E i, j \in DOMAIN EdgeList :
          /\ i < j
          /\ EdgeList[i].v["Source_Sheep_ID"] = EdgeList[j].v["Source_Sheep_ID"]
          /\ EdgeList[i].v["Target_Sheep_ID"] = EdgeList[j].v["Target_Sheep_ID"]
          /\ EdgeList[i].v["Weight"] # EdgeList[j].v["Weight"]
    /\ \E n \in extra.G.nodes : extra.in_degree[n] = 1

-----------------------------------------------------------------------------
(* Age attribute of the sheep nodes *)

\* C17: in a sheep run over files with the full schema, every node of the
\* graph, the ones that appear only in the edge list included, carries an
\* age attribute, and the tooltip step that reads it completes the run
\* without failing.
C17_EveryNodeHasAge ==
    (app = "sheep" /\ SchemaComplete /\ pc = "done") =>
        /\ extra.G.nodes \subseteq DOMAIN extra.G.age
        /\ "tooltips" \in ran
        /\ outcome = "ok"

-----------------------------------------------------------------------------
(* The CO2 view of the Population sector *)

\* the CO2 run has filtered the data for the selected sector and year
Co2Filtered == app = "co2" /\ "filter" \in ran

\* C18: in the CO2 dashboard the filtered view of the Population sector is
\* never empty; the view is empty, and "No data available" shown, only for
\* another sector, chosen with the slider, that has no record in the selected
\* year.
C18_PopulationViewNonEmpty ==
    Co2Filtered =>
        /\ sel.sector = "Population" => view.rows # <<>>
        /\ view.rows = <<>> =>
              /\ sel.sector # "Population"
              /\ sel.kind = "slider"
              /\ ~\E i \in DOMAIN df.rows :
                    df.rows[i].v["Sector"] = sel.sector /\ df.rows[i].v["Year"] = sel.year

-----------------------------------------------------------------------------
(* The reverse lookup of a clicked state *)

\* no two state names share an abbreviation
MappingInjective ==
    \A i, j \in DOMAIN state_to_abbrev :
        state_to_abbrev[i][2] = state_to_abbrev[j][2] => i = j

\* the reverse lookup of a name's abbreviation gives the name back
MappingRoundTrips ==
    \A i \in DOMAIN state_to_abbrev :
        ReverseOf(AbbrevOf(state_to_abbrev[i][1])) = state_to_abbrev[i][1]

\* a completed CO2 run has drawn the map for a click that carries an abbreviation
ClickShown ==
    /\ app = "co2" /\ pc = "done" /\ "charts" \in ran
    /\ view.rows # <<>>
    /\ extra.click # <<>>
    /\ extra.click[1].customdata # <<>>

StateNames == {state_to_abbrev[i][1] : i \in DOMAIN state_to_abbrev}

\* C19: state_to_abbrev is injective and the reverse lookup round-trips; for
\* a clicked abbreviation of a state N the time series is exactly the records
\* with State = N and the selected sector, over all years; for an
\* abbreviation that is not in the mapping the panel reports that the state
\* was not found, shows no series, and the run raises no error.
C19_ReverseLookupRoundTrips ==
    /\ MappingInjective
    /\ MappingRoundTrips
    /\ ClickShown =>
          LET a == extra.click[1].customdata[1]
              N == {n \in StateNames : AbbrevOf(n) = a}
          IN  /\ outcome = "ok"
              /\ Cardinality(N) <= 1
              /\ N = {} => extra.panel = "not_found" /\ extra.state_df.rows = <<>>
              /\ \A n \in N :
                    /\ extra.panel = "series"
                    /\ extra.state_df.rows =
                          SelectSeq(df.rows, LAMBDA r : r.v["State"] = n
                                                        /\ r.v["Sector"] = sel.sector)

\* the series of a clicked state is shown while the Dataset holds records of
\* that state in another sector too
C19_Witness ==
    /\ ClickShown
    /\ extra.panel = "series"
    /\ extra.state_df.rows # <<>>
    /\ \E i \in DOMAIN df.rows :
          /\ df.rows[i].v["State"] = extra.state_df.rows[1].v["State"]
          /\ df.rows[i].v["Sector"] # sel.sector

-----------------------------------------------------------------------------
(* The county selection of the West Nile dashboard *)

\* this West Nile run follows a change of the county selection alone
CountyChanged == app = "westnile" /\ Len(prev) = 2

\* the rows of the Dataset in the selected year
YearRows == {i \in DOMAIN df.rows : df.rows[i].v["Year"] = sel.year}

\* C20: a change of the county selection leaves the year-filtered view and
\* the per-county map aggregate as they were in the run before; in every
\* run, after a change of the year too, both are those of the selected
\* year: the view holds the Dataset's rows of that year and the aggregate
\* the total Positive_Cases of each id among them.
C20_CountySelectionLeavesMapData ==
    /\ (CountyChanged /\ "filter" \in ran) => SameFrame(view, prev[1])
    /\ (CountyChanged /\ "aggregate" \in ran) => agg[1] = prev[2]
    /\ (app = "westnile" /\ "filter" \in ran) =>
          Labels(view) = {df.rows[i].ix : i \in YearRows}
    /\ (app = "westnile" /\ "aggregate" \in ran) =>
          /\ DOMAIN agg[1] = {<<df.rows[i].v["id"]>> : i \in YearRows}
          /\ \A k \in DOMAIN agg[1] :
                agg[1][k] = SumOver(df.rows, {i \in YearRows : df.rows[i].v["id"] = k[1]},
                                    "Positive_Cases")

\* a run that follows a change of the county selection has completed with a
\* line chart that leaves out records of the year
C20_Witness ==
    /\ CountyChanged
    /\ pc = "done"
    /\ outcome = "ok"
    /\ view.rows # <<>>
    /\ Len(extra.rows) < Len(view.rows)
    /\ DOMAIN agg[1] # {}

-----------------------------------------------------------------------------
(* The fixed options of the gender filter *)

\* the Olympics filter has produced df_filtered
OlyFiltered == app = "olympics" /\ "filter" \in ran /\ HasCols(df, {"Gender"})

\* the rows of the Dataset whose gender code is one of the widget's options
ListedGenderRows == {i \in DOMAIN df.rows : df.rows[i].v["Gender"] \in {"M", "W", "X"}}

\* C21: the gender filter offers the fixed options M, W and X, so whatever is
\* selected no record with another gender code is in the filtered view, and
\* under the default selection (full year range, every sport, every country,
\* the three genders) the view holds exactly the Dataset's records whose
\* gender is M, W or X.
C21_UnlistedGenderNeverShown ==
    OlyFiltered =>
        /\ sel.genders \subseteq {"M", "W", "X"}
        /\ \A i \in DOMAIN view.rows : view.rows[i].v["Gender"] \in {"M", "W", "X"}
        /\ sel = OlyDefaults(df) =>
              /\ Labels(view) = {df.rows[i].ix : i \in ListedGenderRows}
              /\ nrecords = Cardinality(ListedGenderRows)

\* a run with the default selection has completed over a dataset that holds
\* a record with a listed gender and one with another code
C21_Witness ==
    /\ OlyFiltered
    /\ pc = "done"
    /\ outcome = "ok"
    /\ sel = OlyDefaults(df)
    /\ view.rows # <<>>
    /\ \E i \in DOMAIN df.rows : df.rows[i].v["Gender"] \notin {"M", "W", "X"}

=============================================================================
